---------------------------- MODULE Spec2Model ----------------------------
(***************************************************************************)
(* Predator-prey simulation on a toroidal grid (crate life_game).          *)
(* The model follows src/src/lib.rs (Simulation), src/src/cell.rs (Cell),  *)
(* src/src/individual/prey.rs (Prey) and src/src/individual/predator.rs    *)
(* (Predator).  Probabilities are kept in tenths: a rate r in 0..10 stands *)
(* for r/10, and a uniform draw from [0,1) is a value d in 0..9 standing   *)
(* for the interval [d/10, (d+1)/10), so that "draw < rate" is d < r.      *)
(***************************************************************************)
EXTENDS Integers, Sequences, FiniteSets, TLC

(* ------------------------------ bounds --------------------------------- *)
\* largest grid width and height explored
MaxDim == 3
\* largest initial population, both species together
MaxInit == 4
\* largest product of the initial population and the number of sites
MaxLoad == 18
\* number of update() calls explored
MaxSteps == 2
\* largest predator_death_after explored
MaxDeathAfter == 3

\* largest width and height of the grids on which one predator chases one prey
MaxChaseDim == 6

\* largest width and height of the Simulation of simulation.rs
MaxSimDim == 4
\* number of init_grid calls explored on it
MaxInitGrid == 2

\* grids of at most this many sites are followed for MaxSteps calls of
\* update(), larger ones for one call
DeepCells == 4

\* the values a uniform draw from [0,1) can take, in tenths
Draws == 0..9

(* --------------------------- program constants ------------------------- *)
\* Predator::new: death_rate: 0.1
DeathRate == 1

\* offsets that name (1, 0) twice and leave (1, 1) out
neighbor_offsets_repeated ==
  << <<-1, -1>>, <<-1, 0>>, <<-1, 1>>,
     << 0, -1>>,            << 0, 1>>,
     << 1, -1>>, << 1, 0>>, << 1, 0>> >>

\* Simulation::new: neighbor_offsets
neighbor_offsets ==
  << <<-1, -1>>, <<-1, 0>>, <<-1, 1>>,
     << 0, -1>>,            << 0, 1>>,
     << 1, -1>>, << 1, 0>>, << 1, 1>> >>

VARIABLES
  pc,                  \* "config" | "idle" | "updating" | "panicked"
  config,              \* SimulationConfig
  grid,                \* Simulation.grid: <<x, y>> -> Cell
  prey_positions,      \* Simulation.prey_positions
  predator_positions,  \* Simulation.predator_positions
  prey_kdtree,         \* Simulation.prey_kdtree
  nb_prey,             \* Simulation.nb_prey
  nb_predator,         \* Simulation.nb_predator
  prey_cells,          \* update(): the part of prey_cells not yet visited
  predator_cells,      \* update(): the part of predator_cells not yet visited
  steps,               \* number of completed update() calls
  log,                 \* history: the evaluations of the current update()
  sim_pc,              \* simulation.rs: "off" | "on" (a Simulation exists)
  sim,                 \* simulation.rs: the Simulation (width, height, grid)
  init_grid_calls,     \* simulation.rs: number of init_grid calls made
  probe,               \* simulation.rs: the last get_cell call, its answer, and
                       \* the number of init_grid calls made before it
  pass                 \* simulation.rs: simulate()'s progress: the number of
                       \* update_parallel passes made, the last pass and the
                       \* coordinates collected so far

\* the state of the Simulation of lib.rs
lib_vars == <<pc, config, grid, prey_positions, predator_positions, prey_kdtree,
              nb_prey, nb_predator, prey_cells, predator_cells, steps, log>>

\* the state of the Simulation of simulation.rs
sim_vars == <<sim_pc, sim, init_grid_calls, probe, pass>>

vars == <<pc, config, grid, prey_positions, predator_positions, prey_kdtree,
          nb_prey, nb_predator, prey_cells, predator_cells, steps, log,
          sim_pc, sim, init_grid_calls, probe, pass>>

(* ------------------------------ values --------------------------------- *)
\* Option::None for a coordinate
NoCoord == <<>>
\* Cell.content == None
NoContent == [kind |-> "none"]

\* whether a draw from [0,1) can come out below rate (TRUE) or not (FALSE)
Draw(rate) == {d < rate : d \in Draws}

Range(s) == {s[i] : i \in 1..Len(s)}

\* the configurations explored: rates 0.0, 0.5 and 1.0 where a claim names
\* them, and at most MaxInit organisms seeded in all, fewer on large grids
SimulationConfig ==
  {c \in [width : 0..MaxDim, height : 0..MaxDim,
          prey_reproduction_rate : {0, 5}, prey_moving_factor : {5, 10},
          predator_hunting_factor : {5}, predator_reproduction_rate : {5},
          predator_death_after : 1..MaxDeathAfter,
          nb_prey_init : 0..MaxInit, nb_predator_init : 0..MaxInit] :
     /\ c.nb_prey_init + c.nb_predator_init <= MaxInit
     /\ (c.nb_prey_init + c.nb_predator_init) * c.width * c.height <= MaxLoad}

\* the number of update() calls followed on a grid
StepBound(c) == IF c.width * c.height <= DeepCells THEN MaxSteps ELSE 1

Coords(w, h) == (0..(w - 1)) \X (0..(h - 1))

(* ------------------------------- Cell ---------------------------------- *)
Cell_new(x, y) ==
  [x |-> x, y |-> y, content |-> NoContent,
   is_empty |-> TRUE, is_prey |-> FALSE, is_predator |-> FALSE]

empty(cell) ==
  [cell EXCEPT !.content = NoContent, !.is_empty = TRUE,
               !.is_predator = FALSE, !.is_prey = FALSE]

set_content(cell, content, is_prey, is_predator) ==
  [cell EXCEPT !.content = content, !.is_empty = FALSE,
               !.is_prey = is_prey, !.is_predator = is_predator]

\* Cell.neighbors as init_grid wires them: the 8 wrapped offsets, in order
neighbors(c) ==
  [i \in 1..Len(neighbor_offsets) |->
     << (c[1] + neighbor_offsets[i][1] + config.width) % config.width,
        (c[2] + neighbor_offsets[i][2] + config.height) % config.height >>]

(* ------------------------------- Prey ---------------------------------- *)
Prey_new(reproduction_rate, moving_factor, x, y) ==
  [kind |-> "prey", reproduction_rate |-> reproduction_rate,
   moving_factor |-> moving_factor, x |-> x, y |-> y]

\* The outcomes of an attempt: the grid, the organism, whether it succeeded,
\* and the site written (with the cell found there before the write).
Outcome(g, self, result, target, before) ==
  [grid |-> g, self |-> self, result |-> result, target |-> target,
   before |-> before]

\* a move whose draw is compared the wrong way round
Prey_move_to_inverted(g, self, local_empty_cells) ==
  IF Len(local_empty_cells) = 0
  THEN {Outcome(g, self, FALSE, NoCoord, NoContent)}
  ELSE (IF TRUE \in Draw(self.moving_factor)
        THEN {Outcome(g, self, FALSE, NoCoord, NoContent)} ELSE {})
       \cup
       (IF FALSE \in Draw(self.moving_factor)
        THEN {LET t == local_empty_cells[i]
                  moved == [self EXCEPT !.x = g[t].x, !.y = g[t].y]
              IN Outcome([g EXCEPT ![t] = set_content(@, moved, TRUE, FALSE)],
                         moved, TRUE, t, g[t])
              : i \in 1..Len(local_empty_cells)}
        ELSE {})

Prey_move_to(g, self, local_empty_cells) ==
  IF Len(local_empty_cells) = 0
  THEN {Outcome(g, self, FALSE, NoCoord, NoContent)}
  ELSE (IF FALSE \in Draw(self.moving_factor)
        THEN {Outcome(g, self, FALSE, NoCoord, NoContent)} ELSE {})
       \cup
       (IF TRUE \in Draw(self.moving_factor)
        THEN {LET t == local_empty_cells[i]
                  moved == [self EXCEPT !.x = g[t].x, !.y = g[t].y]
              IN Outcome([g EXCEPT ![t] = set_content(@, moved, TRUE, FALSE)],
                         moved, TRUE, t, g[t])
              : i \in 1..Len(local_empty_cells)}
        ELSE {})

Prey_reproduce(g, self, local_contents, local_empty_cells) ==
  LET nb_prey_near ==
        Cardinality({i \in 1..Len(local_contents) : g[local_contents[i]].is_prey})
      no == Outcome(g, self, FALSE, NoCoord, NoContent)
  IN IF nb_prey_near = 0 \/ nb_prey_near >= 4
     THEN {no}
     ELSE (IF FALSE \in Draw(self.reproduction_rate) THEN {no} ELSE {})
          \cup
          (IF TRUE \in Draw(self.reproduction_rate)
           THEN IF Len(local_empty_cells) = 0
                THEN {no}
                ELSE {LET t == local_empty_cells[i]
                          new_prey == Prey_new(self.reproduction_rate,
                                               self.moving_factor, g[t].x, g[t].y)
                      IN Outcome([g EXCEPT ![t] = set_content(@, new_prey, TRUE, FALSE)],
                                 self, TRUE, t, g[t])
                      : i \in 1..Len(local_empty_cells)}
           ELSE {})

\* One evaluation's record: what the organism did and what it wrote.
Eval(kind, pos, h0, h1, result, died, hunted, attempts, born, moved, before) ==
  [kind |-> kind, pos |-> pos, hunger_before |-> h0, hunger_after |-> h1,
   result |-> result, died |-> died, hunted |-> hunted, attempts |-> attempts,
   born |-> born, moved |-> moved, before |-> before]

Prey_update(g, c, self, local_contents, local_empty_cells) ==
  UNION {
    IF r.result
    THEN {[grid |-> r.grid, self |-> self, result |-> FALSE,
           ev |-> Eval("prey", c, 0, 0, FALSE, "no", NoCoord, 0,
                       r.target, NoCoord, r.before)]}
    ELSE {[grid |-> m.grid, self |-> m.self, result |-> m.result,
           ev |-> Eval("prey", c, 0, 0, m.result, "no", NoCoord, 0,
                       NoCoord, m.target, m.before)]
          : m \in Prey_move_to(g, self, local_empty_cells)}
    : r \in Prey_reproduce(g, self, local_contents, local_empty_cells)}

(* ----------------------------- Predator -------------------------------- *)
Predator_new(hunting_factor, reproduction_rate, death_after, x, y, grid_width, grid_height) ==
  [kind |-> "predator", hunting_factor |-> hunting_factor,
   reproduction_rate |-> reproduction_rate, death_after |-> death_after,
   hunger |-> death_after \div 2, death_rate |-> DeathRate, x |-> x, y |-> y,
   grid_width |-> grid_width, grid_height |-> grid_height]

\* a hunt that goes on after its first success and takes every prey around
hunt_all(g, self, local_contents) ==
  LET preyIdx == {i \in 1..Len(local_contents) : g[local_contents[i]].is_prey}
      first == CHOOSE i \in preyIdx : \A j \in preyIdx : i <= j
      taken == {local_contents[i] : i \in preyIdx}
  IN (IF preyIdx = {} \/ FALSE \in Draw(self.hunting_factor)
      THEN {[grid |-> g, self |-> self, result |-> FALSE, hunted |-> NoCoord,
             attempts |-> Cardinality(preyIdx)]}
      ELSE {})
     \cup
     (IF preyIdx # {} /\ TRUE \in Draw(self.hunting_factor)
      THEN {[grid |-> [c \in DOMAIN g |-> IF c \in taken THEN empty(g[c]) ELSE g[c]],
             self |-> [self EXCEPT !.hunger = 0], result |-> TRUE,
             hunted |-> local_contents[first],
             attempts |-> Cardinality(preyIdx)]}
      ELSE {})

\* hunt: the neighbours are tried in order; every neighbour tagged prey gets
\* a draw, and the first draw below hunting_factor ends the scan.
hunt(g, self, local_contents) ==
  LET preyIdx == {i \in 1..Len(local_contents) : g[local_contents[i]].is_prey}
      canMiss == FALSE \in Draw(self.hunting_factor)
      canHit == TRUE \in Draw(self.hunting_factor)
      hits == {i \in preyIdx : canHit /\ (canMiss \/ \A j \in preyIdx : j >= i)}
  IN (IF preyIdx = {} \/ canMiss
      THEN {[grid |-> g, self |-> self, result |-> FALSE, hunted |-> NoCoord,
             attempts |-> Cardinality(preyIdx)]}
      ELSE {})
     \cup
     {[grid |-> [g EXCEPT ![local_contents[i]] = empty(@)],
       self |-> [self EXCEPT !.hunger = 0], result |-> TRUE,
       hunted |-> local_contents[i],
       attempts |-> Cardinality({j \in preyIdx : j <= i})] : i \in hits}

\* a threshold that no hunger reaches
too_hungry_never(self) == FALSE

\* reproduce: "Can't reproduce if too hungry", hunger >= death_after / 2
too_hungry(self) == self.hunger >= self.death_after \div 2

Predator_reproduce(g, self, local_contents, local_empty_cells) ==
  LET nb_predator_near ==
        Cardinality({i \in 1..Len(local_contents) : g[local_contents[i]].is_predator})
      no == Outcome(g, self, FALSE, NoCoord, NoContent)
  IN IF too_hungry(self)
     THEN {no}
     ELSE IF nb_predator_near = 0 \/ nb_predator_near >= 4
     THEN {no}
     ELSE (IF FALSE \in Draw(self.reproduction_rate) THEN {no} ELSE {})
          \cup
          (IF TRUE \in Draw(self.reproduction_rate)
           THEN IF Len(local_empty_cells) = 0
                THEN {no}
                ELSE {LET t == local_empty_cells[i]
                          new_predator ==
                            Predator_new(self.hunting_factor, self.reproduction_rate,
                                         self.death_after, g[t].x, g[t].y,
                                         self.grid_width, self.grid_height)
                      IN Outcome([g EXCEPT ![t] = set_content(@, new_predator, FALSE, TRUE)],
                                 self, TRUE, t, g[t])
                      : i \in 1..Len(local_empty_cells)}
           ELSE {})

Abs(n) == IF n < 0 THEN -n ELSE n

\* a direction that takes the direct path and never the wrap-around path
Direction_direct(self_x, prey_x, grid_width) ==
  IF prey_x > self_x THEN 1 ELSE IF prey_x < self_x THEN -1 ELSE 0

\* move_to: the step along one axis toward the prey, the shorter way round
Direction(self_x, prey_x, grid_width) ==
  IF prey_x # self_x
  THEN LET direct_dist == Abs(prey_x - self_x)
           wrap_dist == grid_width - direct_dist
       IN IF direct_dist <= wrap_dist
          THEN (IF prey_x > self_x THEN 1 ELSE -1)
          ELSE (IF prey_x > self_x THEN -1 ELSE 1)
  ELSE 0

\* move_to: the site one step toward nearest_prey
Toward(self, nearest_prey) ==
  << (self.x + Direction(self.x, nearest_prey[1], self.grid_width)
             + self.grid_width) % self.grid_width,
     (self.y + Direction(self.y, nearest_prey[2], self.grid_height)
             + self.grid_height) % self.grid_height >>

\* a move that a predator at or above half of death_after does not make
Predator_move_to_unless_hungry(g, self, nearest_prey, local_empty_cells) ==
  LET place(t) ==
        LET moved == [self EXCEPT !.x = g[t].x, !.y = g[t].y]
        IN Outcome([g EXCEPT ![t] = set_content(@, moved, FALSE, TRUE)],
                   moved, TRUE, t, g[t])
      directed ==
        IF nearest_prey # NoCoord
        THEN {i \in 1..Len(local_empty_cells) :
                /\ g[local_empty_cells[i]].x = Toward(self, nearest_prey)[1]
                /\ g[local_empty_cells[i]].y = Toward(self, nearest_prey)[2]}
        ELSE {}
  IN IF Len(local_empty_cells) = 0 \/ self.hunger >= self.death_after \div 2
     THEN {Outcome(g, self, FALSE, NoCoord, NoContent)}
     ELSE IF directed # {}
     THEN {place(local_empty_cells[CHOOSE i \in directed : \A j \in directed : i <= j])}
     ELSE {place(local_empty_cells[i]) : i \in 1..Len(local_empty_cells)}

\* a move that stays put when the site toward the known prey is not free
Predator_move_to_directed_only(g, self, nearest_prey, local_empty_cells) ==
  LET place(t) ==
        LET moved == [self EXCEPT !.x = g[t].x, !.y = g[t].y]
        IN Outcome([g EXCEPT ![t] = set_content(@, moved, FALSE, TRUE)],
                   moved, TRUE, t, g[t])
      directed ==
        IF nearest_prey # NoCoord
        THEN {i \in 1..Len(local_empty_cells) :
                /\ g[local_empty_cells[i]].x = Toward(self, nearest_prey)[1]
                /\ g[local_empty_cells[i]].y = Toward(self, nearest_prey)[2]}
        ELSE {}
  IN IF Len(local_empty_cells) = 0
     THEN {Outcome(g, self, FALSE, NoCoord, NoContent)}
     ELSE IF directed # {}
     THEN {place(local_empty_cells[CHOOSE i \in directed : \A j \in directed : i <= j])}
     ELSE IF nearest_prey # NoCoord
     THEN {Outcome(g, self, FALSE, NoCoord, NoContent)}
     ELSE {place(local_empty_cells[i]) : i \in 1..Len(local_empty_cells)}

Predator_move_to(g, self, nearest_prey, local_empty_cells) ==
  LET place(t) ==
        LET moved == [self EXCEPT !.x = g[t].x, !.y = g[t].y]
        IN Outcome([g EXCEPT ![t] = set_content(@, moved, FALSE, TRUE)],
                   moved, TRUE, t, g[t])
      directed ==
        IF nearest_prey # NoCoord
        THEN {i \in 1..Len(local_empty_cells) :
                /\ g[local_empty_cells[i]].x = Toward(self, nearest_prey)[1]
                /\ g[local_empty_cells[i]].y = Toward(self, nearest_prey)[2]}
        ELSE {}
  IN IF Len(local_empty_cells) = 0
     THEN {Outcome(g, self, FALSE, NoCoord, NoContent)}
     ELSE IF directed # {}
     THEN {place(local_empty_cells[CHOOSE i \in directed : \A j \in directed : i <= j])}
     ELSE {place(local_empty_cells[i]) : i \in 1..Len(local_empty_cells)}

\* a starvation check that lets hunger reach death_after
starved_past(self) == self.hunger > self.death_after

\* Predator::update: "Check for death from starvation"
starved(self) == self.hunger >= self.death_after

Predator_update(g, c, self, nearest_prey, local_contents, local_empty_cells) ==
  LET s1 == [self EXCEPT !.hunger = @ + 1]
      dead(why) == [grid |-> g, self |-> s1, result |-> TRUE,
                    ev |-> Eval("predator", c, self.hunger, s1.hunger, TRUE, why,
                                NoCoord, 0, NoCoord, NoCoord, NoContent)]
      after(h) ==
        UNION {
          IF r.result
          THEN {[grid |-> r.grid, self |-> h.self, result |-> FALSE,
                 ev |-> Eval("predator", c, self.hunger, h.self.hunger, FALSE, "no",
                             h.hunted, h.attempts, r.target, NoCoord, r.before)]}
          ELSE {[grid |-> m.grid, self |-> m.self, result |-> m.result,
                 ev |-> Eval("predator", c, self.hunger, h.self.hunger, m.result, "no",
                             h.hunted, h.attempts, NoCoord, m.target, m.before)]
                : m \in Predator_move_to(h.grid, h.self, nearest_prey, local_empty_cells)}
          : r \in Predator_reproduce(h.grid, h.self, local_contents, local_empty_cells)}
  IN (IF TRUE \in Draw(s1.death_rate) THEN {dead("random")} ELSE {})
     \cup
     (IF FALSE \in Draw(s1.death_rate)
      THEN IF starved(s1)
           THEN {dead("starved")}
           ELSE UNION {after(h) : h \in hunt(g, s1, local_contents)}
      ELSE {})

(* --------------------------- Cell::update ------------------------------ *)
\* a filter that takes every neighbour not tagged predator for a free site
empty_cells_not_predator(g, local_contents) ==
  SelectSeq(local_contents, LAMBDA n : ~g[n].is_predator)

\* a filter that keeps every neighbour, free or not
empty_cells_any(g, local_contents) == local_contents

\* Cell::update: the neighbours tagged empty, in neighbour order
empty_cells(g, local_contents) ==
  SelectSeq(local_contents, LAMBDA n : g[n].is_empty)

\* The evaluation of the organism at c.  A site that is its own neighbour is
\* borrowed again while it is mutably borrowed, which panics (RefCell).
\* The history entry of an evaluated organism also keeps what the evaluation
\* was given: nearest (the nearest_prey argument) and near (the neighbour
\* cells, in neighbour order, as they were when the evaluation began).
Cell_update(g, c, nearest_prey) ==
  IF g[c].content = NoContent
  THEN {[grid |-> g, result |-> FALSE, panic |-> FALSE,
         ev |-> Eval("none", c, 0, 0, FALSE, "no", NoCoord, 0, NoCoord, NoCoord,
                     NoContent)]}
  ELSE LET local_contents == neighbors(c)
       IN IF c \in Range(local_contents)
          THEN {[grid |-> g, result |-> FALSE, panic |-> TRUE,
                 ev |-> Eval("panic", c, 0, 0, FALSE, "no", NoCoord, 0, NoCoord,
                             NoCoord, NoContent)]}
          ELSE LET local_empty_cells == empty_cells(g, local_contents)
                   content == g[c].content
                   taken == [g EXCEPT ![c].content = NoContent]
                   outs == IF content.kind = "prey"
                           THEN Prey_update(taken, c, content, local_contents,
                                            local_empty_cells)
                           ELSE Predator_update(taken, c, content, nearest_prey,
                                                local_contents, local_empty_cells)
               IN {[grid |-> IF o.result THEN o.grid
                             ELSE [o.grid EXCEPT ![c].content = o.self],
                    result |-> o.result, panic |-> FALSE,
                    ev |-> o.ev @@ [nearest |-> nearest_prey,
                                    near |-> [i \in DOMAIN local_contents |->
                                                g[local_contents[i]]]]]
                   : o \in outs}

(* ----------------------------- Simulation ------------------------------ *)
\* the sites in the order update() scans them: y outer, x inner
ScanOrder(w, h) ==
  [k \in 1..(w * h) |-> << (k - 1) % w, (k - 1) \div w >>]

\* init_grid: one placement per position of the sequence, later over earlier
RECURSIVE Seed(_, _)
Seed(g, organisms) ==
  IF organisms = <<>>
  THEN g
  ELSE LET o == Head(organisms)
       IN Seed([g EXCEPT ![<<o.x, o.y>>] =
                           set_content(@, o, o.kind = "prey", o.kind = "predator")],
               Tail(organisms))

\* a counter that is added to instead of being reset
count_accumulated(old, cells) == old + Len(cells)

\* update(): the counters are reset to the lengths of the scanned lists
count_scanned(old, cells) == Len(cells)

\* a counter that counts the distinct seeded coordinates
count_distinct(placements) == Cardinality(Range(placements))

\* init_grid: the counter is incremented once per placement
count_seeded(placements) == Len(placements)

\* update_prey_kdtree: Some(tree over the prey positions), or None
update_prey_kdtree(positions) ==
  IF positions # {} THEN [some |-> TRUE, points |-> positions]
  ELSE [some |-> FALSE, points |-> {}]

Dist2(p, q) == (p[1] - q[1]) * (p[1] - q[1]) + (p[2] - q[2]) * (p[2] - q[2])

\* a query answered with any point of the tree, near or far
get_nearest_prey_any(tree, positions, predator_pos) ==
  IF tree.some /\ positions # {} THEN tree.points ELSE {NoCoord}

\* get_nearest_prey: the answers the tree can give (ties are the tree's choice)
get_nearest_prey(tree, positions, predator_pos) ==
  IF tree.some /\ positions # {}
  THEN {p \in tree.points :
          \A q \in tree.points : Dist2(p, predator_pos) <= Dist2(q, predator_pos)}
  ELSE {NoCoord}

\* no Simulation of simulation.rs exists
NoProbe ==
  [called |-> FALSE, after |-> 0, x |-> 0, y |-> 0, result |-> [kind |-> "None"]]

\* simulate() has not been called
NoPass ==
  [made |-> 0, i |-> 0, j |-> 0, visited |-> <<>>,
   prey_coords |-> <<>>, predator_coords |-> <<>>,
   prey_pos |-> <<>>, predator_pos |-> <<>>]

\* Simulation::new of simulation.rs: an empty grid and empty position lists
Sim_new(width, height, nb_initial_prey, nb_initial_predators) ==
  [width |-> width, height |-> height, grid |-> <<>>, neighbours |-> <<>>,
   prey_position |-> <<>>, predator_position |-> <<>>,
   nb_initial_prey |-> nb_initial_prey,
   nb_initial_predators |-> nb_initial_predators]

NoSim ==
  /\ sim_pc = "off"
  /\ sim = Sim_new(0, 0, 0, 0)
  /\ init_grid_calls = 0
  /\ probe = NoProbe
  /\ pass = NoPass

Init ==
  /\ pc = "config"
  /\ config \in SimulationConfig
  /\ grid = <<>>
  /\ prey_positions = {}
  /\ predator_positions = {}
  /\ prey_kdtree = [some |-> FALSE, points |-> {}]
  /\ nb_prey = 0
  /\ nb_predator = 0
  /\ prey_cells = <<>>
  /\ predator_cells = <<>>
  /\ steps = 0
  /\ log = <<>>
  /\ NoSim

\* Simulation::new with init_grid; random_range on an empty range panics
New ==
  /\ pc = "config"
  /\ LET w == config.width
         h == config.height
         cells == [c \in Coords(w, h) |-> Cell_new(c[1], c[2])]
         mkPrey(c) == Prey_new(config.prey_reproduction_rate,
                               config.prey_moving_factor, c[1], c[2])
         mkPredator(c) == Predator_new(config.predator_hunting_factor,
                                       config.predator_reproduction_rate,
                                       config.predator_death_after, c[1], c[2], w, h)
     IN IF (config.nb_prey_init > 0 \/ config.nb_predator_init > 0)
           /\ (w = 0 \/ h = 0)
        THEN /\ pc' = "panicked"
             /\ UNCHANGED <<grid, prey_positions, predator_positions,
                            prey_kdtree, nb_prey, nb_predator>>
        ELSE \E preys \in [1..config.nb_prey_init -> Coords(w, h)],
                predators \in [1..config.nb_predator_init -> Coords(w, h)] :
               /\ pc' = "idle"
               /\ grid' = Seed(Seed(cells, [i \in DOMAIN preys |-> mkPrey(preys[i])]),
                                [i \in DOMAIN predators |-> mkPredator(predators[i])])
               /\ prey_positions' = Range(preys)
               /\ predator_positions' = Range(predators)
               /\ nb_prey' = count_seeded(preys)
               /\ nb_predator' = count_seeded(predators)
               /\ prey_kdtree' = update_prey_kdtree(Range(preys))
  /\ UNCHANGED <<config, prey_cells, predator_cells, steps, log>>
  /\ UNCHANGED sim_vars

\* update(): the scan that collects the tagged sites and resets the counters
UpdateBegin ==
  /\ pc = "idle"
  /\ steps < StepBound(config)
  /\ LET order == ScanOrder(config.width, config.height)
         preyc == SelectSeq(order, LAMBDA c : ~grid[c].is_empty /\ grid[c].is_prey)
         predc == SelectSeq(order, LAMBDA c : /\ ~grid[c].is_empty
                                              /\ ~grid[c].is_prey
                                              /\ grid[c].is_predator)
     IN /\ prey_cells' = preyc
        /\ predator_cells' = predc
        /\ prey_positions' = prey_positions \cup Range(preyc)
        /\ predator_positions' = predator_positions \cup Range(predc)
        /\ nb_prey' = count_scanned(nb_prey, preyc)
        /\ nb_predator' = count_scanned(nb_predator, predc)
  /\ pc' = "updating"
  /\ log' = <<>>
  /\ UNCHANGED <<config, grid, prey_kdtree, steps>>
  /\ UNCHANGED sim_vars

\* update(): one turn of the loop over predator_cells
PredatorStep ==
  /\ pc = "updating"
  /\ predator_cells # <<>>
  /\ LET c == Head(predator_cells)
     IN \E nearest_prey \in get_nearest_prey(prey_kdtree, prey_positions, c) :
          \E o \in Cell_update(grid, c, nearest_prey) :
            /\ grid' = o.grid
            /\ predator_positions' =
                 IF o.result THEN predator_positions \ {c} ELSE predator_positions
            /\ pc' = IF o.panic THEN "panicked" ELSE "updating"
            /\ log' = Append(log, o.ev)
  /\ predator_cells' = Tail(predator_cells)
  /\ UNCHANGED <<config, prey_positions, prey_kdtree, nb_prey, nb_predator,
                 prey_cells, steps>>
  /\ UNCHANGED sim_vars

\* a prey loop that may take its turns between the predators' turns
prey_loop_interleaved(remaining_predators) == TRUE

\* update(): the loop over prey_cells starts when the loop over predator_cells
\* has run to its end
prey_loop_reached(remaining_predators) == remaining_predators = <<>>

\* a prey loop that evaluates every site of the snapshot
still_prey_unchecked(cell) == TRUE

\* update(): "if self.grid[x][y].borrow().is_prey" before a prey evaluation
still_prey(cell) == cell.is_prey

\* update(): one turn of the loop over prey_cells, after the predators
PreyStep ==
  /\ pc = "updating"
  /\ prey_loop_reached(predator_cells)
  /\ prey_cells # <<>>
  /\ LET c == Head(prey_cells)
     IN IF still_prey(grid[c])
        THEN \E o \in Cell_update(grid, c, NoCoord) :
               /\ grid' = o.grid
               /\ prey_positions' =
                    IF o.result THEN prey_positions \ {c} ELSE prey_positions
               /\ pc' = IF o.panic THEN "panicked" ELSE "updating"
               /\ log' = Append(log, o.ev)
        ELSE /\ UNCHANGED <<grid, prey_positions, pc>>
             /\ log' = Append(log, Eval("skipped", c, 0, 0, FALSE, "no", NoCoord, 0,
                                        NoCoord, NoCoord, NoContent))
  /\ prey_cells' = Tail(prey_cells)
  /\ UNCHANGED <<config, predator_positions, prey_kdtree, nb_prey, nb_predator,
                 predator_cells, steps>>
  /\ UNCHANGED sim_vars

\* update(): the tree is rebuilt and the call returns
UpdateEnd ==
  /\ pc = "updating"
  /\ predator_cells = <<>>
  /\ prey_cells = <<>>
  /\ prey_kdtree' = update_prey_kdtree(prey_positions)
  /\ pc' = "idle"
  /\ steps' = steps + 1
  /\ UNCHANGED <<config, grid, prey_positions, predator_positions, nb_prey,
                 nb_predator, prey_cells, predator_cells, log>>
  /\ UNCHANGED sim_vars

Next == New \/ UpdateBegin \/ PredatorStep \/ PreyStep \/ UpdateEnd

Spec == Init /\ [][Next]_vars

(* -------------------- one predator chasing one prey -------------------- *)
\* one predator and one prey that never hunts, breeds or moves away, on
\* grids large enough for the prey to be out of the predator's reach
ChaseConfig ==
  [width : 3..MaxChaseDim, height : 3..MaxChaseDim,
   prey_reproduction_rate : {0}, prey_moving_factor : {0},
   predator_hunting_factor : {0}, predator_reproduction_rate : {0},
   predator_death_after : {MaxDeathAfter},
   nb_prey_init : {1}, nb_predator_init : {1}]

InitChase ==
  /\ pc = "config"
  /\ config \in ChaseConfig
  /\ grid = <<>>
  /\ prey_positions = {}
  /\ predator_positions = {}
  /\ prey_kdtree = [some |-> FALSE, points |-> {}]
  /\ nb_prey = 0
  /\ nb_predator = 0
  /\ prey_cells = <<>>
  /\ predator_cells = <<>>
  /\ steps = 0
  /\ log = <<>>
  /\ NoSim

SpecChase == InitChase /\ [][Next]_vars

(* ------------------- simulation.rs: the other Simulation ---------------- *)
\* no Simulation of lib.rs exists
NoLib ==
  /\ pc = "off"
  /\ config = [width |-> 0, height |-> 0]
  /\ grid = <<>>
  /\ prey_positions = {}
  /\ predator_positions = {}
  /\ prey_kdtree = [some |-> FALSE, points |-> {}]
  /\ nb_prey = 0
  /\ nb_predator = 0
  /\ prey_cells = <<>>
  /\ predator_cells = <<>>
  /\ steps = 0
  /\ log = <<>>

\* init_grid: width rows of height cells each are pushed; grid[i][j] is the
\* cell made by Cell::new(i, j).  A Vec index i is the sequence index i + 1.
init_grid_rows(width, height) ==
  [i \in 1..width |-> [j \in 1..height |-> Cell_new(i - 1, j - 1)]]

\* a lookup that indexes the rows by y and each row by x
get_cell_transposed(s, x, y) ==
  IF x < 0 \/ x >= s.width \/ y < 0 \/ y >= s.height
  THEN [kind |-> "None"]
  ELSE IF y + 1 \notin DOMAIN s.grid
  THEN [kind |-> "panic"]
  ELSE IF x + 1 \notin DOMAIN s.grid[y + 1]
  THEN [kind |-> "panic"]
  ELSE [kind |-> "Some", cell |-> s.grid[y + 1][x + 1]]

\* get_cell: None outside 0..width-1 x 0..height-1, else grid[x][y]; indexing
\* a Vec past its end panics
get_cell(s, x, y) ==
  IF x < 0 \/ x >= s.width \/ y < 0 \/ y >= s.height
  THEN [kind |-> "None"]
  ELSE IF x + 1 \notin DOMAIN s.grid
  THEN [kind |-> "panic"]
  ELSE IF y + 1 \notin DOMAIN s.grid[x + 1]
  THEN [kind |-> "panic"]
  ELSE [kind |-> "Some", cell |-> s.grid[x + 1][y + 1]]

\* Simulation::new: any i32 width and height, an empty grid
InitSim ==
  /\ NoLib
  /\ sim_pc = "on"
  /\ sim \in {Sim_new(w, h, 0, 0) : w \in -1..MaxSimDim, h \in -1..MaxSimDim}
  /\ init_grid_calls = 0
  /\ probe = NoProbe
  /\ pass = NoPass

Sim_init_grid ==
  /\ sim_pc = "on"
  /\ init_grid_calls < MaxInitGrid
  /\ sim' = [sim EXCEPT !.grid = @ \o init_grid_rows(sim.width, sim.height)]
  /\ init_grid_calls' = init_grid_calls + 1
  /\ UNCHANGED <<sim_pc, probe, pass>>
  /\ UNCHANGED lib_vars

Sim_get_cell ==
  /\ sim_pc = "on"
  /\ \E x \in -2..(MaxSimDim + 1), y \in -2..(MaxSimDim + 1) :
       probe' = [called |-> TRUE, after |-> init_grid_calls, x |-> x, y |-> y,
                 result |-> get_cell(sim, x, y)]
  /\ UNCHANGED <<sim_pc, sim, init_grid_calls, pass>>
  /\ UNCHANGED lib_vars

NextSim == Sim_init_grid \/ Sim_get_cell

SpecSim == InitSim /\ [][NextSim]_vars

(* ---------- simulation.rs: seeding, wiring and the partition passes ------- *)
\* init_simulation, one seeded organism: the content is replaced, is_empty is
\* cleared and the organism's own tag is set; the other tag is not touched
seed(s, x, y, kind) ==
  [s EXCEPT !.grid[x + 1][y + 1] =
     [@ EXCEPT !.content = [kind |-> kind],
               !.is_empty = FALSE,
               !.is_prey = IF kind = "prey" THEN TRUE ELSE @,
               !.is_predator = IF kind = "predator" THEN TRUE ELSE @]]

\* init_simulation, one turn of a seeding loop on the outcome r so far:
\* random_range panics on an empty range, and get_cell(x, y).unwrap() panics
\* when the grid has no cell there
seed_step(r, kind) ==
  IF ~r.ok THEN {r}
  ELSE IF r.sim.width <= 0 \/ r.sim.height <= 0
  THEN {[r EXCEPT !.ok = FALSE]}
  ELSE {IF get_cell(r.sim, x, y).kind = "Some"
        THEN [ok |-> TRUE, sim |-> seed(r.sim, x, y, kind)]
        ELSE [ok |-> FALSE, sim |-> r.sim] :
          x \in 0..(r.sim.width - 1), y \in 0..(r.sim.height - 1)}

RECURSIVE seed_loop(_, _, _)
seed_loop(R, kind, n) ==
  IF n = 0 THEN R
  ELSE seed_loop(UNION {seed_step(r, kind) : r \in R}, kind, n - 1)

\* init_simulation, the two seeding loops: every outcome they can have
seeded(s) ==
  seed_loop(seed_loop({[ok |-> TRUE, sim |-> s]}, "prey", s.nb_initial_prey),
            "predator", s.nb_initial_predators)

\* init_simulation: ni = (i + dx + width) % height, nj = (j + dy + width) % height
wired_neighbour(s, i, j, d) ==
  << (i + d[1] + s.width) % s.height, (j + d[2] + s.width) % s.height >>

\* init_simulation, the wiring loops: the turns in the order they are run,
\* i outermost, then j, then the 8 offsets
wiring_turns(s) ==
  IF s.width <= 0 \/ s.height <= 0 THEN <<>>
  ELSE [k \in 1..(s.width * s.height * 8) |->
          LET i == (k - 1) \div (s.height * 8)
              j == ((k - 1) \div 8) % s.height
              d == neighbor_offsets[((k - 1) % 8) + 1]
          IN  [from |-> <<i, j>>, to |-> wired_neighbour(s, i, j, d)]]

\* init_simulation, the wiring loops on the seeded simulation s: a turn whose
\* neighbour is the site itself is skipped; any other turn unwraps
\* get_cell(i, j) and get_cell(ni, nj), and panics if one is not Some;
\* otherwise the neighbour is appended to the site's neighbours
wiring(s) ==
  LET turns == wiring_turns(s)
      run   == {k \in DOMAIN turns : turns[k].from # turns[k].to}
      bad   == {k \in run :
                  \/ get_cell(s, turns[k].from[1], turns[k].from[2]).kind # "Some"
                  \/ get_cell(s, turns[k].to[1], turns[k].to[2]).kind # "Some"}
  IN  IF bad # {}
      THEN [ok |-> FALSE, neighbours |-> <<>>]
      ELSE [ok |-> TRUE,
            neighbours |->
              [c \in (0..(s.width - 1)) \X (0..(s.height - 1)) |->
                 LET base == (c[1] * s.height + c[2]) * 8
                 IN  SelectSeq([n \in 1..8 |-> turns[base + n].to],
                               LAMBDA t : t # c)]]

\* Simulation::new with any i32 width and height and up to one organism of
\* each kind to seed
InitEngine ==
  /\ NoLib
  /\ sim_pc = "on"
  /\ sim \in {Sim_new(w, h, n[1], n[2]) :
                 w \in -1..MaxSimDim, h \in -1..MaxSimDim,
                 n \in {<<0, 0>>, <<1, 0>>, <<0, 1>>, <<1, 1>>}}
  /\ init_grid_calls = 0
  /\ probe = NoProbe
  /\ pass = NoPass

\* init_simulation: the seeding loops, then the wiring loops.  A panic ends
\* the program, whatever was wired before it is lost with it.
Sim_init_simulation ==
  /\ sim_pc = "on"
  /\ \E r \in seeded(sim) :
       LET w == wiring(r.sim)
       IN  /\ sim_pc' = IF r.ok /\ w.ok THEN "wired" ELSE "panicked"
           /\ sim' = IF r.ok /\ w.ok
                     THEN [r.sim EXCEPT !.neighbours = w.neighbours]
                     ELSE r.sim
  /\ UNCHANGED <<init_grid_calls, probe, pass>>
  /\ UNCHANGED lib_vars

\* update_parallel(i, j): the coordinates looked up, x = 0, 3, .. below width
\* outermost and y = 0, 3, .. below height innermost
pass_coords(s, i, j) ==
  IF s.width <= 0 \/ s.height <= 0 THEN <<>>
  ELSE LET nx == (s.width + 2) \div 3
           ny == (s.height + 2) \div 3
       IN  [k \in 1..(nx * ny) |->
              << i + 3 * ((k - 1) \div ny), j + 3 * ((k - 1) % ny) >>]

\* update_parallel(i, j), the selection: a coordinate for which get_cell is
\* None is reported and passed over; a site tagged is_prey is collected as
\* prey, else one tagged is_predator as predator
update_parallel(s, i, j) ==
  LET coords  == pass_coords(s, i, j)
      kind(c) == get_cell(s, c[1], c[2]).kind
      cell(c) == get_cell(s, c[1], c[2]).cell
      visited == SelectSeq(coords, LAMBDA c : kind(c) = "Some")
  IN  [ok |-> \A k \in DOMAIN coords : kind(coords[k]) # "panic",
       visited |-> visited,
       prey_coords |-> SelectSeq(visited, LAMBDA c : cell(c).is_prey),
       predator_coords |->
         SelectSeq(visited, LAMBDA c : ~cell(c).is_prey /\ cell(c).is_predator)]

\* simulate(), one turn of its loops: update_parallel(i, j) for the next
\* (i, j) of [0,1,2] x [0,1,2], i outermost.  prey_position is cleared, the
\* selection is made and its coordinates are appended to simulate()'s lists.
\* The organisms explored have all rates 0.0 and a predator_max_hunger above
\* 1, so that the evaluation of the selected sites moves, breeds, eats and
\* kills nothing during the one simulate() explored; the nearest prey handed
\* to a predator changes no state.
Sim_update_parallel ==
  /\ sim_pc \in {"wired", "simulating"}
  /\ pass.made < 9
  /\ LET i == pass.made \div 3
         j == pass.made % 3
         u == update_parallel(sim, i, j)
     IN  /\ sim' = [sim EXCEPT !.prey_position = <<>>]
         /\ sim_pc' = IF u.ok THEN "simulating" ELSE "panicked"
         /\ pass' = IF u.ok
                    THEN [made |-> pass.made + 1, i |-> i, j |-> j,
                          visited |-> u.visited,
                          prey_coords |-> u.prey_coords,
                          predator_coords |-> u.predator_coords,
                          prey_pos |-> pass.prey_pos \o u.prey_coords,
                          predator_pos |-> pass.predator_pos \o u.predator_coords]
                    ELSE pass
  /\ UNCHANGED <<init_grid_calls, probe>>
  /\ UNCHANGED lib_vars

\* simulate(), after the nine passes: the collected coordinates become
\* prey_position and predator_position
Sim_simulate_end ==
  /\ sim_pc = "simulating"
  /\ pass.made = 9
  /\ sim' = [sim EXCEPT !.prey_position = pass.prey_pos,
                        !.predator_position = pass.predator_pos]
  /\ sim_pc' = "simulated"
  /\ UNCHANGED <<init_grid_calls, probe, pass>>
  /\ UNCHANGED lib_vars

NextEngine ==
  Sim_init_grid \/ Sim_init_simulation \/ Sim_update_parallel \/ Sim_simulate_end

SpecEngine == InitEngine /\ [][NextEngine]_vars


(* ------------------------------ claims --------------------------------- *)
Sites == Coords(config.width, config.height)
Capacity == config.width * config.height
HoldsPrey(c) == grid[c].content.kind = "prey"
HoldsPredator(c) == grid[c].content.kind = "predator"
\* a Simulation exists and no update() is in progress
Constructed == pc = "idle"
\* update() has returned at least once and none is in progress
AfterUpdate == pc = "idle" /\ steps > 0

\* C1: after new and after every update(), a coordinate is in prey_positions
\* iff its site holds a prey, and in predator_positions iff it holds a predator.
C1_PositionsMatchGrid ==
  Constructed =>
    \A c \in Sites : /\ (c \in prey_positions <=> HoldsPrey(c))
                     /\ (c \in predator_positions <=> HoldsPredator(c))

\* C2: after new and after any number of update() calls, prey_positions and
\* predator_positions have no coordinate in common.
C2_PositionsDisjoint ==
  Constructed => prey_positions \cap predator_positions = {}

\* C3: during update() an organism that moves, or a newborn, is only placed
\* into a site that is empty (tagged empty, holding nothing) when it is placed.
C3_PlacedOnlyIntoEmpty ==
  \A i \in 1..Len(log) :
    LET e == log[i]
    IN (e.born # NoCoord \/ e.moved # NoCoord) =>
         /\ e.before.is_empty
         /\ ~e.before.is_prey
         /\ ~e.before.is_predator
         /\ e.before.content = NoContent

\* C3 witness: one update() in which an organism moved and another was born,
\* next to sites that are occupied.
C3_Witness ==
  /\ \E i \in 1..Len(log) : log[i].born # NoCoord
  /\ \E i \in 1..Len(log) : log[i].moved # NoCoord
  /\ \E c \in Sites : ~grid[c].is_empty /\ grid[c].content = NoContent

\* C4: after every update(), get_prey_count() + get_predator_count() is at
\* most width * height.
C4_CountsWithinCapacity ==
  AfterUpdate => nb_prey + nb_predator <= Capacity

\* C4 witness: an update() has returned with the counts at capacity.
C4_Witness ==
  AfterUpdate /\ Capacity > 0 /\ nb_prey + nb_predator = Capacity

\* C5: after each update(), get_prey_count() is the number of sites holding a
\* prey at the end of the step, and get_predator_count() that of predators.
C5_CountsMatchFinalGrid ==
  AfterUpdate =>
    /\ nb_prey = Cardinality({c \in Sites : HoldsPrey(c)})
    /\ nb_predator = Cardinality({c \in Sites : HoldsPredator(c)})

\* C6: right after new, get_prey_count() is nb_prey_init and
\* get_predator_count() is nb_predator_init, when the initial populations do
\* not exceed width * height.
C6_InitialCounts ==
  (/\ Constructed
   /\ steps = 0
   /\ config.nb_prey_init + config.nb_predator_init <= Capacity) =>
    /\ nb_prey = config.nb_prey_init
    /\ nb_predator = config.nb_predator_init

\* C6 witness: a construction within capacity in which two prey were seeded
\* on the same site.
C6_Witness ==
  /\ Constructed
  /\ steps = 0
  /\ config.nb_prey_init + config.nb_predator_init <= Capacity
  /\ config.nb_prey_init = 2
  /\ Cardinality(prey_positions) = 1

\* C7: new fails for every configuration with a zero width or height and for
\* every configuration whose initial population exceeds width * height.
C7_InvalidConfigRejected ==
  Constructed =>
    /\ config.width # 0
    /\ config.height # 0
    /\ config.nb_prey_init + config.nb_predator_init <= Capacity

\* C8: a predator with hunger death_after - 1 at the start of a step that
\* survives the death draw and does not hunt reaches hunger death_after and,
\* after the step, its site neither holds nor is tagged as a predator.
C8_StarvedPredatorAbsent ==
  AfterUpdate =>
    \A i \in 1..Len(log) :
      LET e == log[i]
      IN (/\ e.kind = "predator"
          /\ e.hunger_before = config.predator_death_after - 1
          /\ e.died # "random"
          /\ e.hunted = NoCoord) =>
           /\ e.hunger_after = config.predator_death_after
           /\ ~HoldsPredator(e.pos)
           /\ ~grid[e.pos].is_predator

\* the 3x3 grid of the two scenarios
Grid3x3 == config.width = 3 /\ config.height = 3

\* C9: 3x3 grid, one predator at (1,1), death_after = 1, no prey, and a
\* death draw that does not come out below death_rate: after one update(),
\* get_predator_count() is 0.
C9_LonePredatorCountedOut ==
  (/\ Grid3x3
   /\ config.nb_prey_init = 0
   /\ config.nb_predator_init = 1
   /\ config.predator_death_after = 1
   /\ AfterUpdate
   /\ steps = 1
   /\ log[1].pos = <<1, 1>>
   /\ log[1].died # "random") =>
    nb_predator = 0

\* the scenario of C10 after its one update()
C10_Scenario ==
  /\ Grid3x3
  /\ config.nb_prey_init = 1
  /\ config.nb_predator_init = 0
  /\ config.prey_moving_factor = 10
  /\ config.prey_reproduction_rate = 0
  /\ AfterUpdate
  /\ steps = 1
  /\ log[1].pos = <<0, 0>>

\* C10: 3x3 grid, one prey at (0,0), moving_factor = 1.0, reproduction_rate =
\* 0.0, no predators: after one update() the site (0,0) holds no prey, (0,0)
\* is not in prey_positions, and get_prey_count() is 1.
C10_LonePreyMovesAway ==
  C10_Scenario =>
    /\ ~HoldsPrey(<<0, 0>>)
    /\ <<0, 0>> \notin prey_positions
    /\ nb_prey = 1

\* C10 witness: the scenario, with the prey gone across the edge to (2,2).
C10_Witness ==
  C10_Scenario /\ HoldsPrey(<<2, 2>>)


\* the history entries that are evaluations of an organism
Evaluations == {i \in DOMAIN log : log[i].kind \in {"prey", "predator"}}

\* no neighbour of the organism of entry i was tagged empty when it was evaluated
Surrounded(i) == \A k \in DOMAIN log[i].near : ~log[i].near[k].is_empty

\* C11: an organism with no empty neighbour site at its evaluation is not
\* placed into any other site and creates no offspring in that update(); if
\* it did not die it is still the content of its site after the evaluation.
C11_SurroundedStaysPut ==
  \A i \in Evaluations :
    Surrounded(i) =>
      /\ log[i].moved = NoCoord
      /\ log[i].born = NoCoord
      /\ log[i].died = "no" => ~log[i].result
      /\ (i = Len(log) /\ log[i].died = "no") =>
            /\ grid[log[i].pos].content.kind = log[i].kind
            /\ <<grid[log[i].pos].content.x, grid[log[i].pos].content.y>> = log[i].pos

\* a surrounded prey and a surrounded predator that survived were evaluated
C11_Witness ==
  /\ \E i \in Evaluations :
       log[i].kind = "prey" /\ Surrounded(i)
  /\ \E i \in Evaluations :
       log[i].kind = "predator" /\ Surrounded(i) /\ log[i].died = "no"


\* the step along one axis from a toward b on a ring of n sites: none when
\* a = b, else along the shorter way round, the direct way on a tie
ExpectedStep(a, b, n) ==
  LET fwd == (b - a + n) % n
      back == n - fwd
  IN IF a = b THEN 0
     ELSE IF fwd < back THEN 1
     ELSE IF back < fwd THEN -1
     ELSE IF b > a THEN 1 ELSE -1

\* the site one such step from site p toward site q
ExpectedSite(p, q) ==
  << (p[1] + ExpectedStep(p[1], q[1], config.width) + config.width) % config.width,
     (p[2] + ExpectedStep(p[2], q[2], config.height) + config.height) % config.height >>

\* entry i is a predator that survived, did not reproduce, was given a
\* nearest prey and found the site one step toward it empty
ChaseCase(i) ==
  /\ log[i].kind = "predator"
  /\ log[i].died = "no"
  /\ log[i].born = NoCoord
  /\ log[i].nearest # NoCoord
  /\ \E k \in DOMAIN log[i].near :
       /\ <<log[i].near[k].x, log[i].near[k].y>> = ExpectedSite(log[i].pos, log[i].nearest)
       /\ log[i].near[k].is_empty

\* C12: a surviving, non-reproducing predator that knows a nearest prey and
\* whose neighbour one step toward it (per axis: no step when equal, else
\* along the shorter of the direct and the wrap-around way, the direct way
\* on a tie) is empty moves to exactly that site; from (0,0) toward (5,5)
\* on a 10x10 grid that site is (1,1).
C12_MovesTowardPrey ==
  /\ Toward([x |-> 0, y |-> 0, grid_width |-> 10, grid_height |-> 10], <<5, 5>>)
       = <<1, 1>>
  /\ \A i \in Evaluations :
       ChaseCase(i) => log[i].moved = ExpectedSite(log[i].pos, log[i].nearest)

\* a predator moved toward a prey the wrap-around way on one axis and the
\* direct way, on a tie, on the other
C12_Witness ==
  \E i \in Evaluations :
    /\ ChaseCase(i)
    /\ log[i].moved = ExpectedSite(log[i].pos, log[i].nearest)
    /\ log[i].nearest[1] > log[i].pos[1]
    /\ log[i].moved[1] = (log[i].pos[1] + config.width - 1) % config.width
    /\ 2 * Abs(log[i].nearest[2] - log[i].pos[2]) = config.height


\* the distance between a and b on a ring of n sites
RingDist(a, b, n) ==
  IF Abs(a - b) <= n - Abs(a - b) THEN Abs(a - b) ELSE n - Abs(a - b)

\* the sites other than c that are at most one step away on both rings
Around(c) ==
  {n \in Sites : /\ n # c
                 /\ RingDist(c[1], n[1], config.width) <= 1
                 /\ RingDist(c[2], n[2], config.height) <= 1}

\* C13: on a grid just constructed, with both dimensions >= 3 every site has
\* exactly 8 distinct neighbours, they are the sites one wrapped step away,
\* and every site is among the neighbours of each of its neighbours.
C13_NeighboursSymmetric ==
  (pc = "idle" /\ steps = 0 /\ config.width >= 3 /\ config.height >= 3) =>
    \A c \in Sites :
      /\ Len(neighbors(c)) = 8
      /\ Cardinality(Range(neighbors(c))) = 8
      /\ Range(neighbors(c)) = Around(c)
      /\ \A n \in Range(neighbors(c)) : c \in Range(neighbors(n))

\* a constructed grid that is not square, where a corner's neighbours wrap
C13_Witness ==
  /\ pc = "idle"
  /\ config.width >= 3 /\ config.height > config.width
  /\ <<config.width - 1, config.height - 1>> \in Range(neighbors(<<0, 0>>))
  /\ <<0, 0>> \in Range(neighbors(<<config.width - 1, config.height - 1>>))


\* the coordinate of the last get_cell call lies on the grid
ProbeInRange ==
  /\ 0 <= probe.x /\ probe.x < sim.width
  /\ 0 <= probe.y /\ probe.y < sim.height

\* C14: once init_grid has run, get_cell(sim, x, y) answers with a cell
\* exactly when 0 <= x < width and 0 <= y < height, never panics, and the
\* cell it answers with is the one created at (x, y), on any grid.
C14_GetCellBoundsChecked ==
  (probe.called /\ probe.after >= 1) =>
    /\ probe.result.kind # "panic"
    /\ probe.result.kind = "Some" <=> ProbeInRange
    /\ probe.result.kind = "Some" =>
         /\ probe.result.cell.x = probe.x
         /\ probe.result.cell.y = probe.y

\* on a grid that is not square, a cell whose x is no valid y was looked up
C14_Witness ==
  /\ probe.called /\ probe.after >= 1
  /\ sim.width > sim.height
  /\ probe.x >= sim.height
  /\ probe.result.kind = "Some"
  /\ probe.result.cell.x = probe.x


\* C15: right after an evaluation in which the organism died or moved away,
\* its originating site is Empty: no content, tagged empty, and tagged
\* neither prey nor predator.
C15_OriginCleared ==
  \A i \in Evaluations :
    (i = Len(log) /\ log[i].result) =>
      /\ grid[log[i].pos].content = NoContent
      /\ grid[log[i].pos].is_empty
      /\ ~grid[log[i].pos].is_prey
      /\ ~grid[log[i].pos].is_predator


\* the history entries made by the loop over prey_cells
PreyTurns == {i \in DOMAIN log : log[i].kind \in {"prey", "skipped"}}

\* C16: within one update() no predator is evaluated after a prey's turn,
\* and once a prey has had its turn no predator of the snapshot is left.
C16_PredatorsBeforePrey ==
  /\ \A i \in PreyTurns :
       \A j \in DOMAIN log : log[j].kind = "predator" => j < i
  /\ (pc = "updating" /\ PreyTurns # {}) => predator_cells = <<>>

\* two predators and then two prey were evaluated
C16_Witness ==
  /\ Cardinality({i \in Evaluations : log[i].kind = "predator"}) >= 2
  /\ Cardinality({i \in Evaluations : log[i].kind = "prey"}) >= 2


\* between entries i and j a prey was placed (born or moved) into site p
PreyPlacedBetween(i, j, p) ==
  \E k \in (i + 1)..(j - 1) :
    log[k].kind = "prey" /\ (log[k].born = p \/ log[k].moved = p)

\* C17: the site of a prey hunted in the predator phase gets its turn of the
\* prey loop after the hunt, and that turn evaluates nothing (no move, no
\* birth, the site left as it is, not holding prey) unless a prey was placed
\* into the site in between, in which case that prey is evaluated.
C17_HuntedPreyNotEvaluated ==
  \A i \in Evaluations :
    log[i].hunted # NoCoord =>
      \A j \in DOMAIN log :
        log[j].pos = log[i].hunted =>
          /\ i < j
          /\ IF PreyPlacedBetween(i, j, log[i].hunted)
             THEN log[j].kind = "prey"
             ELSE /\ log[j].kind = "skipped"
                  /\ log[j].moved = NoCoord /\ log[j].born = NoCoord
                  /\ j = Len(log) => ~grid[log[j].pos].is_prey

\* a hunted prey's site was skipped after another predator had moved into it
C17_Witness ==
  \E i \in Evaluations :
    /\ log[i].hunted # NoCoord
    /\ \E j \in DOMAIN log :
         /\ log[j].pos = log[i].hunted
         /\ log[j].kind = "skipped"
         /\ j = Len(log)
         /\ \E k \in Evaluations : log[k].kind = "predator" /\ log[k].moved = log[i].hunted


\* C18: the site a predator has just hunted counts as an empty neighbour for
\* its reproduction and movement in the same evaluation.  A predator that
\* does not reproduce moves whenever it has an empty neighbour, so a
\* predator that hunted places offspring or moves in that evaluation.
C18_HuntedSiteUsable ==
  \A i \in Evaluations :
    (log[i].kind = "predator" /\ log[i].hunted # NoCoord) =>
      (log[i].born # NoCoord \/ log[i].moved # NoCoord)


\* the predators of the history that lived to hunt
Hunters == {i \in Evaluations : log[i].kind = "predator" /\ log[i].died = "no"}

\* the neighbour entries of entry i that were tagged prey, and their sites
PreyEntries(i) == {k \in DOMAIN log[i].near : log[i].near[k].is_prey}

PreySites(i) == {<<log[i].near[k].x, log[i].near[k].y>> : k \in PreyEntries(i)}

\* C19 as stated: a predator draws for the first neighbour that holds prey
\* and for no other: it makes at most one attempt, and what it hunts is that
\* first neighbour.
C19_OneHuntingAttempt ==
  \A i \in Hunters :
    /\ log[i].attempts <= 1
    /\ log[i].hunted # NoCoord =>
         \E k \in PreyEntries(i) :
           /\ \A j \in PreyEntries(i) : k <= j
           /\ log[i].hunted = <<log[i].near[k].x, log[i].near[k].y>>

\* C19 amended: a predator draws for the neighbours that hold prey one after
\* the other, in neighbour order, until a draw succeeds: a hunt that fails
\* has drawn for all of them, a hunt that succeeds has drawn up to the one it
\* hunts; and it kills at most one prey, the one of the successful draw.
C19_HuntsUntilFirstSuccess ==
  \A i \in Hunters :
    /\ log[i].hunted = NoCoord => log[i].attempts = Cardinality(PreyEntries(i))
    /\ log[i].hunted # NoCoord =>
         \E k \in PreyEntries(i) :
           /\ log[i].hunted = <<log[i].near[k].x, log[i].near[k].y>>
           /\ log[i].attempts = Cardinality({j \in PreyEntries(i) : j <= k})
    /\ i = Len(log) =>
         {c \in PreySites(i) : grid[c].is_prey} = PreySites(i) \ {log[i].hunted}

\* a predator with two prey around it missed the first and hunted the second
C19_Witness ==
  \E i \in Hunters :
    /\ i = Len(log)
    /\ Cardinality(PreySites(i)) >= 2
    /\ log[i].attempts >= 2
    /\ log[i].hunted # NoCoord
    /\ Cardinality({c \in PreySites(i) : grid[c].is_prey}) = Cardinality(PreySites(i)) - 1


\* the predators that lived to hunt and were then at or above half of
\* death_after
HungryHunters ==
  {i \in Hunters : log[i].hunger_after >= config.predator_death_after \div 2}

\* C20 as stated: a predator whose hunger after hunting is at or above half
\* of death_after does not move: it stays at its site and its update
\* returns false.
C20_HungryPredatorStays ==
  \A i \in HungryHunters : log[i].moved = NoCoord /\ ~log[i].result

\* C20 amended: a predator whose hunger after hunting is at or above half of
\* death_after does not reproduce, and it stays at its site (its update
\* returns false) exactly when it has no empty neighbour; with an empty
\* neighbour it moves into one and its update returns true.
C20_HungryPredatorStaysOnlyIfSurrounded ==
  \A i \in HungryHunters :
    /\ log[i].born = NoCoord
    /\ log[i].moved = NoCoord <=> Surrounded(i)
    /\ log[i].result <=> log[i].moved # NoCoord
    /\ log[i].moved # NoCoord =>
         \E k \in DOMAIN log[i].near :
           /\ log[i].near[k].is_empty
           /\ log[i].moved = <<log[i].near[k].x, log[i].near[k].y>>

\* a hungry predator moved into an empty neighbour while another, with no
\* empty neighbour, stayed
C20_Witness ==
  /\ \E i \in HungryHunters : log[i].moved # NoCoord /\ log[i].result
  /\ \E i \in HungryHunters : Surrounded(i) /\ ~log[i].result


\* C21: a predator whose hunger after hunting is at or above half of
\* death_after does not reproduce; every predator starts at half of
\* death_after, the seeded ones and the ones just born, so in the first
\* update() a predator reproduces only after a successful hunt in it.
C21_HungryPredatorNeverReproduces ==
  /\ \A i \in Hunters :
       log[i].born # NoCoord =>
         /\ log[i].hunger_after < config.predator_death_after \div 2
         /\ steps = 0 => log[i].hunted # NoCoord
         /\ i = Len(log) =>
              grid[log[i].born].content.hunger = config.predator_death_after \div 2
  /\ (pc = "idle" /\ steps = 0) =>
       \A c \in Sites :
         HoldsPredator(c) =>
           grid[c].content.hunger = config.predator_death_after \div 2

\* a predator that had hunted placed offspring, which starts at half
C21_Witness ==
  \E i \in Hunters :
    /\ i = Len(log)
    /\ log[i].born # NoCoord
    /\ log[i].hunted # NoCoord
    /\ grid[log[i].born].content.kind = "predator"
    /\ grid[log[i].born].content.hunger = config.predator_death_after \div 2


\* entry i is a predator that survived, did not reproduce, was given a
\* nearest prey, and the site one step toward it was not an empty neighbour
BlockedCase(i) ==
  /\ i \in Hunters
  /\ log[i].born = NoCoord
  /\ log[i].nearest # NoCoord
  /\ ~\E k \in DOMAIN log[i].near :
        /\ <<log[i].near[k].x, log[i].near[k].y>> = ExpectedSite(log[i].pos, log[i].nearest)
        /\ log[i].near[k].is_empty

\* C22 as stated: a predator that knows a nearest prey but finds the site
\* one step toward it not an empty neighbour stays at its coordinates.
C22_BlockedPredatorStays ==
  \A i \in Evaluations :
    BlockedCase(i) => (log[i].moved = NoCoord /\ ~log[i].result)

\* C22 amended: such a predator moves into one of its empty neighbours,
\* any of them, and stays at its coordinates only when it has none.
C22_BlockedPredatorMovesAtRandom ==
  \A i \in Evaluations :
    BlockedCase(i) =>
      /\ log[i].moved = NoCoord <=> Surrounded(i)
      /\ log[i].result <=> log[i].moved # NoCoord
      /\ log[i].moved # NoCoord =>
           /\ \E k \in DOMAIN log[i].near :
                /\ log[i].near[k].is_empty
                /\ log[i].moved = <<log[i].near[k].x, log[i].near[k].y>>
           /\ i = Len(log) =>
                /\ grid[log[i].moved].content.kind = "predator"
                /\ <<grid[log[i].moved].content.x, grid[log[i].moved].content.y>>
                     = log[i].moved

\* a predator whose way to the prey beside it was taken by that prey moved
\* into another site, while a blocked predator with no empty neighbour stayed
C22_Witness ==
  /\ \E i \in Evaluations :
       /\ BlockedCase(i)
       /\ log[i].moved # NoCoord
       /\ log[i].moved # ExpectedSite(log[i].pos, log[i].nearest)
  /\ \E i \in Evaluations : BlockedCase(i) /\ Surrounded(i) /\ ~log[i].result


\* the prey of the history that placed offspring
Breeders == {i \in Evaluations : log[i].kind = "prey" /\ log[i].born # NoCoord}

\* the neighbour sites of entry i that held a prey when it was evaluated
PreyHolders(i) ==
  {<<log[i].near[k].x, log[i].near[k].y>> :
     k \in {m \in DOMAIN log[i].near : log[i].near[m].content.kind = "prey"}}

\* C23: a prey places offspring only when between 1 and 3 of its neighbour
\* sites hold prey and the site it uses was an empty neighbour; the parent
\* stays where it is and does not move, and the offspring is one new prey
\* with the parent's rates.
C23_PreyReproduction ==
  \A i \in Breeders :
    /\ 1 <= Cardinality(PreyHolders(i))
    /\ Cardinality(PreyHolders(i)) <= 3
    /\ \E k \in DOMAIN log[i].near :
         /\ log[i].near[k].is_empty
         /\ log[i].near[k].content = NoContent
         /\ log[i].born = <<log[i].near[k].x, log[i].near[k].y>>
    /\ ~log[i].result
    /\ log[i].moved = NoCoord
    /\ i = Len(log) =>
         /\ grid[log[i].pos].content.kind = "prey"
         /\ <<grid[log[i].pos].content.x, grid[log[i].pos].content.y>> = log[i].pos
         /\ grid[log[i].born].content =
              Prey_new(grid[log[i].pos].content.reproduction_rate,
                       grid[log[i].pos].content.moving_factor,
                       log[i].born[1], log[i].born[2])
         /\ \A k \in DOMAIN log[i].near :
              <<log[i].near[k].x, log[i].near[k].y>> # log[i].born =>
                grid[<<log[i].near[k].x, log[i].near[k].y>>] = log[i].near[k]


\* C24: while the predators of a step are being queried, the spatial index
\* holds exactly the coordinates of that step's prey snapshot, and there is
\* no index exactly when the snapshot is empty.
C24_IndexMatchesSnapshot ==
  (pc = "updating" /\ predator_cells # <<>>) =>
    /\ prey_kdtree.points = Range(prey_cells)
    /\ prey_kdtree.some <=> prey_cells # <<>>


\* the squared planar distance between two coordinates, without wrap-around
Planar2(p, q) ==
  LET dx == Abs(p[1] - q[1])
      dy == Abs(p[2] - q[2])
  IN dx * dx + dy * dy

\* the squared distance between two coordinates on the torus
Wrapped2(p, q) ==
  LET dx == RingDist(p[1], q[1], config.width)
      dy == RingDist(p[2], q[2], config.height)
  IN dx * dx + dy * dy

\* C25: a predator is answered None exactly when the index was built from
\* an empty set of prey coordinates; any other answer is a coordinate of
\* that set that no other coordinate of the set beats in planar distance.
C25_NearestPreyAnswer ==
  pc = "updating" =>
    \A i \in Evaluations :
      log[i].kind = "predator" =>
        /\ log[i].nearest = NoCoord <=> prey_kdtree.points = {}
        /\ log[i].nearest # NoCoord =>
             /\ log[i].nearest \in prey_kdtree.points
             /\ \A q \in prey_kdtree.points :
                  Planar2(log[i].nearest, log[i].pos) <= Planar2(q, log[i].pos)

\* a predator was given the nearer of two prey coordinates, although the
\* farther one is the nearer one on the torus
C25_Witness ==
  /\ pc = "updating"
  /\ \E i \in Evaluations :
       /\ log[i].kind = "predator"
       /\ log[i].nearest # NoCoord
       /\ \E q \in prey_kdtree.points :
            /\ Planar2(log[i].nearest, log[i].pos) < Planar2(q, log[i].pos)
            /\ Wrapped2(q, log[i].pos) < Wrapped2(log[i].nearest, log[i].pos)


\* C26: on a grid that never held a prey, once death_after calls of
\* update() have returned every predator has died: no site holds a
\* predator and the predator count is 0.
C26_PredatorsDieOutWithoutPrey ==
  (pc = "idle" /\ config.nb_prey_init = 0
     /\ steps >= config.predator_death_after) =>
    /\ \A c \in Sites : ~HoldsPredator(c)
    /\ nb_predator = 0

\* the site at Moore offset d from c on the torus of simulation.rs's grid:
\* each coordinate wrapped by its own dimension
TorusSite(c, d) ==
  << (c[1] + d[1] + sim.width) % sim.width,
     (c[2] + d[2] + sim.height) % sim.height >>

\* the sites a unit evaluating c can mutate: c and its toroidal Moore
\* neighbours
WriteSet(c) == {c} \cup {TorusSite(c, d) : d \in Range(neighbor_offsets)}

\* C27: the sites selected by one update_parallel(i, j) pass have pairwise
\* disjoint write sets, whatever the width and height of the grid: no two of
\* them are toroidal Moore neighbours or share a toroidal Moore neighbour.
C27_PassWriteSetsDisjoint ==
  (sim_pc = "simulating" /\ pass.made >= 1) =>
    \A a, b \in DOMAIN pass.visited :
      a # b => WriteSet(pass.visited[a]) \cap WriteSet(pass.visited[b]) = {}

\* C28: on a grid of positive width and height whose cells exist,
\* init_simulation never fails on a missing cell and wires each site (i, j)
\* to the sites ((i + dx + width) mod width, (j + dy + height) mod height) of
\* the 8 Moore offsets, all of them inside the grid.
C28_WiringWrapsByOwnDimension ==
  (sim_pc \in {"wired", "panicked"} /\ pass.made = 0
     /\ sim.width > 0 /\ sim.height > 0 /\ init_grid_calls >= 1) =>
    /\ sim_pc = "wired"
    /\ \A c \in DOMAIN sim.neighbours :
         /\ Range(sim.neighbours[c]) =
              {TorusSite(c, d) : d \in Range(neighbor_offsets)} \ {c}
         /\ \A n \in Range(sim.neighbours[c]) :
              n[1] \in 0..(sim.width - 1) /\ n[2] \in 0..(sim.height - 1)

\* C29: within one update() each organism is evaluated at most once: no
\* evaluation is of an organism that an earlier evaluation of the same
\* update() placed, by a move or a birth, into the site now evaluated.
C29_EvaluatedAtMostOnce ==
  \A j \in Evaluations :
    \A k \in Evaluations :
      k < j => (log[k].moved # log[j].pos /\ log[k].born # log[j].pos)

\* C30: in every state of a constructed Simulation, between evaluations as
\* well as between update() calls, each site has exactly one of the tags
\* is_empty, is_prey, is_predator, and it is the tag of the site's content:
\* is_empty iff the site holds no organism, is_prey iff it holds a prey,
\* is_predator iff it holds a predator.
C30_TagsAgreeWithContent ==
  (pc \in {"idle", "updating"}) =>
    \A c \in Sites :
      /\ grid[c].is_empty <=> grid[c].content = NoContent
      /\ grid[c].is_prey <=> HoldsPrey(c)
      /\ grid[c].is_predator <=> HoldsPredator(c)

\* C31: on every grid of positive width and height no site is in its own
\* neighbour list, and no update() ends in a borrow fault: the site held
\* for its organism's evaluation is never one of the neighbours accessed.
C31_NoSelfNeighbour ==
  (pc \in {"idle", "updating", "panicked"}
     /\ config.width > 0 /\ config.height > 0) =>
    /\ \A c \in Sites : c \notin Range(neighbors(c))
    /\ pc # "panicked"

\* C32: between steps every predator on the grid has 0 <= hunger <
\* death_after, for any death_after >= 1: a predator whose hunger reaches
\* death_after does not remain on the grid, and a predator copied into a
\* new site by a move or born during the step is within the range too.
C32_HungerBelowDeathAfter ==
  (pc = "idle" /\ config.predator_death_after >= 1) =>
    \A c \in Sites :
      HoldsPredator(c) =>
        /\ grid[c].content.death_after = config.predator_death_after
        /\ grid[c].content.hunger >= 0
        /\ grid[c].content.hunger < grid[c].content.death_after

\* after an update() in which one predator was born and one moved, the
\* newborn stands at its site and the moved one at its new site, one short
\* of death_after
C32_Witness ==
  /\ AfterUpdate
  /\ \E i \in Evaluations :
       /\ log[i].kind = "predator" /\ log[i].born # NoCoord
       /\ HoldsPredator(log[i].born)
  /\ \E i \in Evaluations :
       /\ log[i].kind = "predator" /\ log[i].moved # NoCoord
       /\ HoldsPredator(log[i].moved)
       /\ grid[log[i].moved].content.hunger = config.predator_death_after - 1
       /\ grid[log[i].moved].content.hunger >= 1

=============================================================================
